---- MODULE Spec2Model ----
(***************************************************************************)
(* Model of src/main.py: the JSON-backed UserManager (load on construct,   *)
(* save on every mutation, soft delete) and the part of the CLI loop that  *)
(* starts it, calls into it and ends the process.                          *)
(*                                                                         *)
(* Text is a sequence of characters, so that `"@" in email` and `not name` *)
(* are computed.  A dictionary is a function from its keys to its values;  *)
(* a key that is absent is absent from the DOMAIN.  The data file is a     *)
(* sequence of JSON tokens, written by json_dump and parsed by json_load,  *)
(* so that a truncated file is a prefix of a token sequence.               *)
(***************************************************************************)
EXTENDS Integers, Sequences, FiniteSets, TLC

VARIABLES
    phase,          \* "boot" | "running" | "crashed" | "exited": the process
    file,           \* the data file: [exists, text]
    users,          \* self.users: the items of the in-memory sequence
    usersType,      \* "list" | "dict": the Python type json.load gave self.users
    call,           \* the last step the CLI made and its inputs
    ret,            \* what that call returned
    lastPersisted,  \* ghost: the file as the last complete write left it
    startedEmpty,   \* ghost: this manager was constructed with an empty list
    assigned        \* ghost: the ids add_user assigned, in order, in a manager
                    \* that started empty

vars == <<phase, file, users, usersType, call, ret, lastPersisted,
          startedEmpty, assigned>>

---------------------------------------------------------------------------
(* Bounds *)

\* add_user is offered while the store holds fewer records than this
MaxUsers == 2
\* a write that fails or is interrupted has put at most this many tokens
MaxCut == 1
\* get_user and delete_user are called with ids 0..MaxIdArg
MaxIdArg == 2

---------------------------------------------------------------------------
(* Text *)

Str_Ann == <<"A", "n", "n">>
Str_a   == <<"a", "@", "x">>
Str_b   == <<"b", "@", "x">>
Str_c   == <<"c", "@", "x">>
Str_d   == <<"d", "@", "x">>
Str_bad == <<"a", "x">>

\* what the user types at the Name: and Email: prompts
Names  == {<<>>, Str_Ann}
Emails == {<<>>, Str_bad, Str_a, Str_b}

\* "@" in email
HasAt(s) == \E i \in DOMAIN s : s[i] = "@"

\* dict.get(key, default)
Get(d, k, default) == IF k \in DOMAIN d THEN d[k] ELSE default

\* d[key] = value
SetKey(d, k, v) == [x \in DOMAIN d \cup {k} |-> IF x = k THEN v ELSE d[x]]

---------------------------------------------------------------------------
(* JSON text as tokens *)

LB    == [t |-> "["]
RB    == [t |-> "]"]
LC    == [t |-> "{"]
RC    == [t |-> "}"]
COMMA == [t |-> ","]
NULL  == [t |-> "null"]
\* a byte sequence that is no UTF-8 text
BADBYTES == [t |-> "badbytes"]
KeyTok(k)  == [t |-> "key", k |-> k]
IntTok(n)  == [t |-> "int", n |-> n]
StrTok(s)  == [t |-> "str", s |-> s]
BoolTok(b) == [t |-> "bool", b |-> b]

\* the order in which to_dict inserts the keys, which json.dump keeps
KeyOrder == <<"id", "name", "email", "active">>

ValueTok(k, v) ==
    CASE k = "id" -> IntTok(v)
      [] k = "active" -> BoolTok(v)
      [] OTHER -> StrTok(v)

RECURSIVE DumpMembers(_, _, _)
DumpMembers(d, i, first) ==
    IF i > Len(KeyOrder) THEN <<>>
    ELSE LET k == KeyOrder[i]
         IN IF k \in DOMAIN d
            THEN (IF first THEN <<>> ELSE <<COMMA>>)
                 \o <<KeyTok(k), ValueTok(k, d[k])>>
                 \o DumpMembers(d, i + 1, FALSE)
            ELSE DumpMembers(d, i + 1, first)

\* one dictionary as JSON
DumpRec(d) == <<LC>> \o DumpMembers(d, 1, TRUE) \o <<RC>>

RECURSIVE DumpItems(_, _)
DumpItems(us, i) ==
    IF i > Len(us) THEN <<>>
    ELSE (IF i = 1 THEN <<>> ELSE <<COMMA>>) \o DumpRec(us[i]) \o DumpItems(us, i + 1)

\* json.dump(self.users, file, indent=2): the chunks written, in order
json_dump(us) == <<LB>> \o DumpItems(us, 1) \o <<RB>>

IsValueTok(tok) == tok.t \in {"int", "str", "bool"}

TokValue(tok) ==
    CASE tok.t = "int" -> tok.n
      [] tok.t = "str" -> tok.s
      [] tok.t = "bool" -> tok.b

ParseFail == [ok |-> FALSE, val |-> <<>>, next |-> 0]

\* members of an object from position i (a key is expected there)
RECURSIVE ParseMembers(_, _, _)
ParseMembers(toks, i, acc) ==
    IF i + 2 > Len(toks) THEN ParseFail
    ELSE IF toks[i].t # "key" \/ ~IsValueTok(toks[i + 1]) THEN ParseFail
    ELSE LET acc2 == SetKey(acc, toks[i].k, TokValue(toks[i + 1]))
         IN IF toks[i + 2] = RC THEN [ok |-> TRUE, val |-> acc2, next |-> i + 3]
            ELSE IF toks[i + 2] = COMMA THEN ParseMembers(toks, i + 3, acc2)
            ELSE ParseFail

\* an object whose "{" is at position i
ParseRec(toks, i) ==
    IF i + 1 > Len(toks) \/ toks[i] # LC THEN ParseFail
    ELSE IF toks[i + 1] = RC THEN [ok |-> TRUE, val |-> <<>>, next |-> i + 2]
    ELSE ParseMembers(toks, i + 1, <<>>)

\* items of an array from position i (an object is expected there)
RECURSIVE ParseItems(_, _, _)
ParseItems(toks, i, acc) ==
    LET r == ParseRec(toks, i)
    IN IF ~r.ok \/ r.next > Len(toks) THEN ParseFail
       ELSE IF toks[r.next] = RB
            THEN [ok |-> TRUE, val |-> Append(acc, r.val), next |-> r.next + 1]
       ELSE IF toks[r.next] = COMMA THEN ParseItems(toks, r.next + 1, Append(acc, r.val))
       ELSE ParseFail

ParseArray(toks) ==
    IF Len(toks) < 2 \/ toks[1] # LB THEN ParseFail
    ELSE IF toks[2] = RB THEN [ok |-> TRUE, val |-> <<>>, next |-> 3]
    ELSE ParseItems(toks, 2, <<>>)

DecodeError == [err |-> "decode", kind |-> "none", items |-> <<>>]

\* json.load(file): err "other" is a failure to read the text at all, err
\* "decode" a JSONDecodeError; kind is the Python type of the value ("scalar":
\* None; "dict": an object, whose contents no operation gets to read)
json_load(toks) ==
    IF \E i \in DOMAIN toks : toks[i] = BADBYTES
    THEN [err |-> "other", kind |-> "none", items |-> <<>>]
    ELSE IF toks = <<>> THEN DecodeError
    ELSE IF toks = <<NULL>> THEN [err |-> "none", kind |-> "scalar", items |-> <<>>]
    ELSE IF toks[1] = LC
    THEN LET r == ParseRec(toks, 1)
         IN IF r.ok /\ r.next = Len(toks) + 1
            THEN [err |-> "none", kind |-> "dict", items |-> <<>>]
            ELSE DecodeError
    ELSE LET r == ParseArray(toks)
         IN IF r.ok /\ r.next = Len(toks) + 1
            THEN [err |-> "none", kind |-> "list", items |-> r.val]
            ELSE DecodeError

---------------------------------------------------------------------------
(* The data file *)

Absent == [exists |-> FALSE, text |-> <<>>]
FileOf(toks) == [exists |-> TRUE, text |-> toks]

OldRec1 == [id |-> 2, name |-> Str_Ann, email |-> Str_c]
OldRec2 == [id |-> 3, name |-> Str_Ann, email |-> Str_c, active |-> FALSE]
OldRec3 == [id |-> 1, name |-> Str_Ann, email |-> Str_d, active |-> TRUE]

\* what the file at the path may hold when the program is first started
InitialFiles ==
    { Absent,
      FileOf(<<>>),
      FileOf(<<BADBYTES>>),
      FileOf(<<NULL>>),
      FileOf(<<LC, RC>>),
      FileOf(json_dump(<<>>)),
      FileOf(json_dump(<<OldRec1>>)),
      FileOf(json_dump(<<OldRec2, OldRec3>>)) }

---------------------------------------------------------------------------
(* UserManager *)

None == [kind |-> "none"]
RetUser(u) == [kind |-> "user", user |-> u]
RetBool(b) == [kind |-> "bool", val |-> b]
RetList(ty, us) == [kind |-> ty, items |-> us]

\* a loader that drops the soft-deleted records
load_users_active(f) ==
    IF ~f.exists THEN [kind |-> "list", items |-> <<>>]
    ELSE LET data == json_load(f.text)
         IN IF data.err # "none" THEN [kind |-> "list", items |-> <<>>]
            ELSE [kind |-> data.kind,
                  items |-> SelectSeq(data.items, LAMBDA u : Get(u, "active", TRUE))]

\* _load_users: the value json.load gave, or [] on each of the three failures
load_users(f) ==
    IF ~f.exists THEN [kind |-> "list", items |-> <<>>]
    ELSE LET data == json_load(f.text)
         IN IF data.err = "decode" THEN [kind |-> "list", items |-> <<>>]
            ELSE IF data.err = "other" THEN [kind |-> "list", items |-> <<>>]
            ELSE [kind |-> data.kind, items |-> data.items]

\* how a write of the file can end: it succeeds, open() fails, or a write
\* fails after open() truncated the file and cut tokens were written
SaveOutcomes ==
    {[kind |-> "ok", cut |-> 0], [kind |-> "open_fail", cut |-> 0]}
    \cup {[kind |-> "write_fail", cut |-> k] : k \in 0..MaxCut}

\* the first n tokens of text, and never all of them
Truncated(text, n) == SubSeq(text, 1, IF n < Len(text) THEN n ELSE Len(text) - 1)

\* a save that writes the newest record alone
save_users_last(us, f, o) ==
    CASE o.kind = "ok" -> [ok |-> TRUE, file |-> FileOf(json_dump(<<us[Len(us)]>>))]
      [] o.kind = "open_fail" -> [ok |-> FALSE, file |-> f]
      [] o.kind = "write_fail" ->
            [ok |-> FALSE, file |-> FileOf(Truncated(json_dump(us), o.cut))]

\* _save_users
save_users(us, f, o) ==
    CASE o.kind = "ok" -> [ok |-> TRUE, file |-> FileOf(json_dump(us))]
      [] o.kind = "open_fail" -> [ok |-> FALSE, file |-> f]
      [] o.kind = "write_fail" ->
            [ok |-> FALSE, file |-> FileOf(Truncated(json_dump(us), o.cut))]

\* the file when a KeyboardInterrupt ends _save_users: before open(), after
\* open() and cut tokens, or after the last token
interrupted_save(us, f, at, cut) ==
    CASE at = "before" -> f
      [] at = "partial" -> FileOf(Truncated(json_dump(us), cut))
      [] at = "complete" -> FileOf(json_dump(us))

\* User(...).to_dict(), active defaulting to True
to_dict(id, name, email) ==
    [id |-> id, name |-> name, email |-> email, active |-> TRUE]

RECURSIVE MaxOf(_)
MaxOf(S) ==
    LET x == CHOOSE y \in S : TRUE
    IN IF S = {x} THEN x
       ELSE LET m == MaxOf(S \ {x}) IN IF x > m THEN x ELSE m

\* an id taken from the number of records
new_id_count(us) == Len(us) + 1

\* an id taken from the active records alone
new_id_active(us) ==
    LET act == {i \in DOMAIN us : Get(us[i], "active", TRUE)}
    IN IF act = {} THEN 0 + 1
       ELSE MaxOf({Get(us[i], "id", 0) : i \in act}) + 1

\* max([user.get("id", 0) for user in self.users], default=0) + 1
new_id(us) ==
    IF us = <<>> THEN 0 + 1
    ELSE MaxOf({Get(us[i], "id", 0) : i \in DOMAIN us}) + 1

\* a duplicate scan that skips the soft-deleted records
email_exists_active(us, email) ==
    \E i \in DOMAIN us :
        "email" \in DOMAIN us[i] /\ us[i].email = email /\ Get(us[i], "active", TRUE)

\* the duplicate scan: some user.get("email") == email
email_exists(us, email) ==
    \E i \in DOMAIN us : "email" \in DOMAIN us[i] /\ us[i].email = email

\* the index of the first record with user.get("id") == user_id, 0 if none
find_user(us, user_id) ==
    LET hits == {i \in DOMAIN us : "id" \in DOMAIN us[i] /\ us[i].id = user_id}
    IN IF hits = {} THEN 0 ELSE CHOOSE i \in hits : \A j \in hits : i <= j

\* a delete that removes the record
soft_delete_remove(us, i) == SubSeq(us, 1, i - 1) \o SubSeq(us, i + 1, Len(us))

\* a delete that flips the flag
soft_delete_toggle(us, i) ==
    [us EXCEPT ![i] = SetKey(us[i], "active", ~Get(us[i], "active", TRUE))]

\* self.users[i]["active"] = False
soft_delete(us, i) == [us EXCEPT ![i] = SetKey(us[i], "active", FALSE)]

Unchanged(us, f) == [users |-> us, file |-> f, ret |-> None, added |-> FALSE]

\* an add_user that takes the append back when the save fails
add_user_rollback(us, ty, f, name, email, o) ==
    IF name = <<>> \/ email = <<>> THEN Unchanged(us, f)
    ELSE IF ~HasAt(email) THEN Unchanged(us, f)
    ELSE IF ty # "list" THEN Unchanged(us, f)
    ELSE IF email_exists(us, email) THEN Unchanged(us, f)
    ELSE LET user == to_dict(new_id(us), name, email)
             us2 == Append(us, user)
             s == save_users(us2, f, o)
         IN [users |-> IF s.ok THEN us2 ELSE us, file |-> s.file,
             ret |-> IF s.ok THEN RetUser(user) ELSE None, added |-> TRUE]

\* add_user.  On a dict (the file held an object) the scan and max() see
\* nothing and self.users.append raises AttributeError, which is caught.
add_user(us, ty, f, name, email, o) ==
    IF name = <<>> \/ email = <<>> THEN Unchanged(us, f)
    ELSE IF ~HasAt(email) THEN Unchanged(us, f)
    ELSE IF ty # "list" THEN Unchanged(us, f)
    ELSE IF email_exists(us, email) THEN Unchanged(us, f)
    ELSE LET user == to_dict(new_id(us), name, email)
             us2 == Append(us, user)
             s == save_users(us2, f, o)
         IN [users |-> us2, file |-> s.file,
             ret |-> IF s.ok THEN RetUser(user) ELSE None, added |-> TRUE]

\* get_user
get_user(us, ty, user_id) ==
    IF ty # "list" \/ find_user(us, user_id) = 0 THEN None
    ELSE RetUser(us[find_user(us, user_id)])

\* list_users
list_users(us, ty, active_only) ==
    IF active_only
    THEN RetList("list", SelectSeq(us, LAMBDA u : Get(u, "active", TRUE)))
    ELSE RetList(ty, us)

\* delete_user
delete_user(us, ty, f, user_id, o) ==
    IF ty # "list" \/ find_user(us, user_id) = 0
    THEN [users |-> us, file |-> f, ret |-> RetBool(FALSE)]
    ELSE LET us2 == soft_delete(us, find_user(us, user_id))
             s == save_users(us2, f, o)
         IN [users |-> us2, file |-> s.file, ret |-> RetBool(s.ok)]

---------------------------------------------------------------------------
(* The process: main() *)

\* save: how the call's write of the file ended ("none": it made none);
\* dirty: before the call, the in-memory sequence was not what the file holds
Call(op, name, email, id, active_only, save, dirty) ==
    [op |-> op, name |-> name, email |-> email, id |-> id,
     active_only |-> active_only, save |-> save, dirty |-> dirty]

Dirty == users # load_users(file).items

Init ==
    /\ phase = "boot"
    /\ file \in InitialFiles
    /\ users = <<>>
    /\ usersType = "list"
    /\ call = Call("none", <<>>, <<>>, 0, FALSE, "none", FALSE)
    /\ ret = None
    /\ lastPersisted = file
    /\ startedEmpty = FALSE
    /\ assigned = <<>>

\* manager = UserManager(): a new process.  len(self.users) in __init__ is
\* outside every try, and raises TypeError when json.load gave a scalar.
Construct ==
    /\ phase \in {"boot", "exited"}
    /\ LET data == load_users(file)
       IN /\ phase' = IF data.kind = "scalar" THEN "crashed" ELSE "running"
          /\ users' = data.items
          /\ usersType' = IF data.kind = "dict" THEN "dict" ELSE "list"
          /\ startedEmpty' = (data.kind = "list" /\ data.items = <<>>)
    /\ call' = Call("init", <<>>, <<>>, 0, FALSE, "none", FALSE)
    /\ ret' = None
    /\ assigned' = <<>>
    /\ UNCHANGED <<file, lastPersisted>>

\* choice 1
AddUser ==
    /\ phase = "running"
    /\ \E name \in Names, email \in Emails, o \in SaveOutcomes :
         LET r == add_user(users, usersType, file, name, email, o)
         IN /\ (r.added => Len(users) < MaxUsers)
            /\ (~r.added => o.kind = "ok")
            /\ users' = r.users
            /\ file' = r.file
            /\ ret' = r.ret
            /\ call' = Call("add", name, email, 0, FALSE,
                            IF r.added THEN o.kind ELSE "none", Dirty)
            /\ lastPersisted' = IF r.ret # None THEN r.file ELSE lastPersisted
            /\ assigned' = IF r.added /\ startedEmpty
                           THEN Append(assigned, new_id(users))
                           ELSE assigned
    /\ UNCHANGED <<phase, usersType, startedEmpty>>

\* choice 3
GetUser ==
    /\ phase = "running"
    /\ \E id \in 0..MaxIdArg :
         /\ ret' = get_user(users, usersType, id)
         /\ call' = Call("get", <<>>, <<>>, id, FALSE, "none", Dirty)
    /\ UNCHANGED <<phase, file, users, usersType, lastPersisted, startedEmpty, assigned>>

\* choice 2 calls list_users(active_only=False); the default is True
ListUsers ==
    /\ phase = "running"
    /\ \E ao \in BOOLEAN :
         /\ ret' = list_users(users, usersType, ao)
         /\ call' = Call("list", <<>>, <<>>, 0, ao, "none", Dirty)
    /\ UNCHANGED <<phase, file, users, usersType, lastPersisted, startedEmpty, assigned>>

\* choice 4, confirmed with 'y'
DeleteUser ==
    /\ phase = "running"
    /\ \E id \in 0..MaxIdArg, o \in SaveOutcomes :
         LET r == delete_user(users, usersType, file, id, o)
             found == usersType = "list" /\ find_user(users, id) # 0
         IN /\ (~found => o.kind = "ok")
            /\ users' = r.users
            /\ file' = r.file
            /\ ret' = r.ret
            /\ call' = Call("delete", <<>>, <<>>, id, FALSE,
                            IF found THEN o.kind ELSE "none", Dirty)
            /\ lastPersisted' = IF r.ret = RetBool(TRUE) THEN r.file ELSE lastPersisted
    /\ UNCHANGED <<phase, usersType, startedEmpty, assigned>>

\* the process ends and its memory with it
EndProcess(op, save) ==
    /\ phase' = "exited"
    /\ users' = <<>>
    /\ usersType' = "list"
    /\ ret' = None
    /\ call' = Call(op, <<>>, <<>>, 0, FALSE, save, Dirty)
    /\ startedEmpty' = FALSE
    /\ assigned' = <<>>

\* choice 5
Exit ==
    /\ phase = "running"
    /\ EndProcess("exit", "none")
    /\ UNCHANGED <<file, lastPersisted>>

\* where a KeyboardInterrupt can end the write of the file
InterruptPoints ==
    {[at |-> "before", cut |-> 0], [at |-> "complete", cut |-> 0]}
    \cup {[at |-> "partial", cut |-> k] : k \in 0..MaxCut}

InterruptedWrite(us) ==
    \E p \in InterruptPoints :
       /\ file' = interrupted_save(us, file, p.at, p.cut)
       /\ lastPersisted' = IF p.at = "complete" THEN file' ELSE lastPersisted
       /\ EndProcess("interrupt", p.at)

\* KeyboardInterrupt is no Exception: no handler of the manager catches it,
\* and main's handler leaves the loop.  It arrives at a prompt,
InterruptAtPrompt ==
    /\ phase = "running"
    /\ EndProcess("interrupt", "before")
    /\ UNCHANGED <<file, lastPersisted>>

\* or inside add_user, after the append,
InterruptAdd ==
    /\ phase = "running"
    /\ Len(users) < MaxUsers
    /\ \E name \in Names, email \in Emails :
         /\ add_user(users, usersType, file, name, email, [kind |-> "ok", cut |-> 0]).added
         /\ InterruptedWrite(Append(users, to_dict(new_id(users), name, email)))

\* or inside delete_user, after the flag is set.
InterruptDelete ==
    /\ phase = "running"
    /\ usersType = "list"
    /\ \E id \in 0..MaxIdArg :
         /\ find_user(users, id) # 0
         /\ InterruptedWrite(soft_delete(users, find_user(users, id)))

Next ==
    \/ Construct
    \/ AddUser
    \/ GetUser
    \/ ListUsers
    \/ DeleteUser
    \/ Exit
    \/ InterruptAtPrompt
    \/ InterruptAdd
    \/ InterruptDelete

Spec == Init /\ [][Next]_vars

---------------------------------------------------------------------------
(* What the claims speak of, stated apart from the operations above *)

ContainsAt(s) == "@" \in {s[i] : i \in DOMAIN s}
ValidInput(name, email) == name # <<>> /\ email # <<>> /\ ContainsAt(email)
EmailsOf(us) == {us[i].email : i \in {j \in DOMAIN us : "email" \in DOMAIN us[j]}}
IdsOf(us) == {us[i].id : i \in {j \in DOMAIN us : "id" \in DOMAIN us[j]}}
MaxIdOrZero(us) ==
    IF IdsOf(us) = {} THEN 0 ELSE CHOOSE m \in IdsOf(us) : \A x \in IdsOf(us) : x <= m
IsActive(u) == IF "active" \in DOMAIN u THEN u.active ELSE TRUE
\* the record a valid add_user(name, email) is to make in store us
Expected(us, name, email) ==
    [id |-> MaxIdOrZero(us) + 1, name |-> name, email |-> email, active |-> TRUE]
SaveFailed(c) == c.save \in {"open_fail", "write_fail"}
\* record i of the in-memory sequence is not in the file
Unsaved(us, f, i) ==
    LET disk == load_users(f).items
    IN i > Len(disk) \/ disk[i] # us[i]

\* C1 as written: add_user with a non-empty name, a non-empty email holding
\* "@" and no record with that email returns a record with id max + 1 (1 on
\* an empty store) and active true, appended last.
C1_AddReturnsRecord ==
    [][(call'.op = "add" /\ usersType = "list"
        /\ ValidInput(call'.name, call'.email)
        /\ call'.email \notin EmailsOf(users))
       => /\ ret' = RetUser(Expected(users, call'.name, call'.email))
          /\ users' = Append(users, Expected(users, call'.name, call'.email))]_vars

\* C1 as amended: such a call on a store that is a sequence of records
\* appends the record with id max + 1 (1 on an empty store) and active
\* true as the last element; it returns that record when the save
\* succeeds and nothing when the save fails.
C1_AddAppendsRecord ==
    [][(call'.op = "add" /\ usersType = "list"
        /\ ValidInput(call'.name, call'.email)
        /\ call'.email \notin EmailsOf(users))
       => /\ users' = Append(users, Expected(users, call'.name, call'.email))
          /\ (call'.save = "ok"
                => ret' = RetUser(Expected(users, call'.name, call'.email)))
          /\ (call'.save # "ok" => ret' = None)]_vars

\* an add on a store whose greatest id is not its length has returned a record
C1_Witness ==
    /\ phase = "running" /\ call.op = "add" /\ ret.kind = "user"
    /\ users[Len(users)] = ret.user
    /\ ret.user.id = 3 /\ Len(users) = 2

\* C2: add_user with an empty name, an empty email, an email without "@" or
\* the email of a record of the store (active or not) returns nothing and
\* leaves the in-memory sequence and the file as they were.
C2_RejectedAddChangesNothing ==
    [][(call'.op = "add"
        /\ (\/ call'.name = <<>>
            \/ call'.email = <<>>
            \/ ~ContainsAt(call'.email)
            \/ call'.email \in EmailsOf(users)))
       => (ret' = None /\ users' = users /\ file' = file)]_vars

\* an add with the email of a soft-deleted record has been rejected
C2_Witness ==
    /\ phase = "running" /\ call.op = "add" /\ call.save = "none" /\ ret = None
    /\ call.name # <<>>
    /\ \E i \in DOMAIN users : users[i].email = call.email /\ ~IsActive(users[i])

\* C3: delete_user(id) with a record of that id sets that record's active
\* to false and changes no other key of it and no other record;
\* delete_user(id) with no such record returns false and leaves the
\* in-memory sequence and the file as they were.
C3_DeleteTouchesOnlyActive ==
    [][call'.op = "delete"
       => IF call'.id \in IdsOf(users)
          THEN /\ Len(users') = Len(users)
               /\ \E i \in DOMAIN users :
                    /\ users[i].id = call'.id
                    /\ DOMAIN users'[i] = DOMAIN users[i] \cup {"active"}
                    /\ users'[i].active = FALSE
                    /\ \A k \in DOMAIN users[i] \ {"active"} : users'[i][k] = users[i][k]
                    /\ \A j \in DOMAIN users \ {i} : users'[j] = users[j]
          ELSE ret' = RetBool(FALSE) /\ users' = users /\ file' = file]_vars

\* a delete has returned true on a store of two records, the other one active
C3_Witness ==
    /\ phase = "running" /\ call.op = "delete" /\ ret = RetBool(TRUE)
    /\ Len(users) = 2
    /\ \E i, j \in DOMAIN users :
         users[i].id = call.id /\ ~IsActive(users[i]) /\ IsActive(users[j])

\* C4: while a manager lives, a record that is inactive stays inactive
\* and the store never gets shorter.
C4_ActiveIsOneWay ==
    [][(phase = "running" /\ phase' = "running")
       => /\ Len(users') >= Len(users)
          /\ \A i \in DOMAIN users :
               ~IsActive(users[i]) => ~IsActive(users'[i])]_vars

\* delete_user has been called on a record after an add, and the store
\* holds an inactive record and an active one
C4_Witness ==
    /\ phase = "running" /\ call.op = "delete" /\ call.save # "none"
    /\ Len(assigned) >= 1
    /\ \E i, j \in DOMAIN users : ~IsActive(users[i]) /\ IsActive(users[j])

\* C5: in a manager that started with an empty store, failed saves
\* included, the ids of the records are strictly increasing in insertion
\* order (so pairwise distinct), and no id was assigned twice.
C5_IdsUniqueAndIncreasing ==
    startedEmpty
    => /\ \A i, j \in DOMAIN users : i < j => users[i].id < users[j].id
       /\ \A i, j \in DOMAIN assigned : i # j => assigned[i] # assigned[j]

\* two ids were assigned from an empty start, the first record was then
\* soft-deleted, and a save failed
C5_Witness ==
    /\ startedEmpty /\ Len(assigned) = 2 /\ Len(users) = 2
    /\ ~IsActive(users[1])
    /\ SaveFailed(call)

\* C6: constructing a UserManager lets no exception escape, and a file
\* that is absent or cannot be read and parsed gives an empty sequence.
C6_ConstructNeverRaises ==
    call.op = "init"
    => /\ phase # "crashed"
       /\ (~file.exists \/ json_load(file.text).err # "none")
             => (users = <<>> /\ usersType = "list")

\* C7: an interrupt that ends the process while the file holds the last
\* store persisted, a store with a record in it, leaves the file holding
\* the last store persisted.
C7_InterruptKeepsFile ==
    [][(phase = "running" /\ call'.op = "interrupt"
        /\ file = lastPersisted /\ load_users(file).items # <<>>)
       => file' = lastPersisted']_vars

\* C8: after a save that succeeded, a new manager on the same path would
\* load a sequence equal to the in-memory one.
C8_RoundTrip ==
    (phase = "running" /\ call.op \in {"add", "delete"} /\ call.save = "ok")
    => load_users(file) = [kind |-> "list", items |-> users]

\* a store of two records, one of them inactive, has been saved
C8_Witness ==
    /\ phase = "running" /\ call.op \in {"add", "delete"} /\ call.save = "ok"
    /\ Len(users) = 2
    /\ \E i, j \in DOMAIN users : ~IsActive(users[i]) /\ IsActive(users[j])

\* C9: when the save fails in add_user on valid input, add_user returns
\* nothing and the new record stays last in the in-memory sequence; an
\* add_user with the email of a record that is not in the file is
\* rejected, and an id newly assigned is greater than every id in memory,
\* the unsaved ones too.  When the save fails in delete_user, it returns
\* false and the record stays inactive in memory.
C9_NoRollback ==
    [][/\ (call'.op = "add" /\ SaveFailed(call'))
            => /\ ret' = None
               /\ users' = Append(users, Expected(users, call'.name, call'.email))
       /\ (call'.op = "add"
           /\ \E i \in DOMAIN users :
                 Unsaved(users, file, i) /\ users[i].email = call'.email)
            => (ret' = None /\ users' = users)
       /\ (call'.op = "add" /\ call'.save # "none")
            => \A i \in DOMAIN users : users'[Len(users')].id > users[i].id
       /\ (call'.op = "delete" /\ SaveFailed(call'))
            => /\ ret' = RetBool(FALSE)
               /\ \E i \in DOMAIN users :
                    users[i].id = call'.id /\ users'[i].active = FALSE]_vars

\* an add with the email of a record that a failed save left out of the
\* file has been rejected
C9_Witness ==
    /\ phase = "running" /\ call.op = "add" /\ call.save = "none" /\ ret = None
    /\ ValidInput(call.name, call.email)
    /\ \E i \in DOMAIN users :
         Unsaved(users, file, i) /\ users[i].email = call.email

\* C10: when add_user returns a record or delete_user returns true, the
\* file holds the whole in-memory sequence; get_user and list_users
\* change neither the in-memory sequence nor the file.
C10_SuccessWritesAll ==
    [][/\ (call'.op \in {"add", "delete"} /\ (ret'.kind = "user" \/ ret' = RetBool(TRUE)))
            => file' = FileOf(json_dump(users'))
       /\ (call'.op \in {"get", "list"}) => (users' = users /\ file' = file)]_vars

\* an add has succeeded in a manager whose memory and file differed, and
\* the file holds both records
C10_Witness ==
    /\ phase = "running" /\ call.op = "add" /\ call.dirty /\ ret.kind = "user"
    /\ Len(users) = 2
    /\ file = FileOf(json_dump(users))

====
